---- MODULE Spec2Model ----
(***************************************************************************)
(* A model of the Sapling editor loop (src/src/editor.rs): the pure        *)
(* command interpreter interpret_command, the Editor state (tree, command  *)
(* buffer) and Editor::mainloop, one action per kind of poll_event result  *)
(* plus the update_display step that ends every iteration of the loop,     *)
(* with the usize arithmetic of the status line's position.  The Editable  *)
(* Tree and its node store, which the editor only holds, follow their      *)
(* specification.                                                          *)
(*                                                                         *)
(* Spec is the editor loop; SpecTree adds calls of replace_selected        *)
(* between events; SpecInterp applies interpret_command to every buffer.   *)
(*                                                                         *)
(* A Rust String is modelled as the sequence of its chars (what            *)
(* String::push appends and what str::chars yields); a char is a           *)
(* one-character TLA+ string.                                              *)
(***************************************************************************)
EXTENDS Integers, Sequences, FiniteSets, TLC

VARIABLES
    command,   \* Editor.command: the command buffer
    tree,      \* Editor.tree: the tree being edited
    pc,        \* where mainloop is: "poll", "display", "terminated", "panicked"
    polled,    \* history: every result poll_event has returned so far
    arg,       \* the buffer given to the latest call of interpret_command
    ret,       \* what that call returned; NotCalled if this iteration made none
    actions,   \* history: the Actions resolved so far, in order
    screen,    \* what the latest update_display put on the terminal
    term,      \* the latest term_size and the status-line position got from it
    renders,   \* history: the number of calls of update_display so far
    edits      \* history: the edit operations invoked on the tree, in order

vars == <<command, tree, pc, polled, arg, ret, actions, screen, term, renders, edits>>

----------------------------------------------------------------------------
(* Bounds of the model *)

\* poll_event returns at most this many results in one run
MaxEvents == 3

\* length of the longest buffer interpret_command is applied to in SpecInterp
MaxLen == 3

\* usize is modelled as an unsigned integer of this many bits
UsizeBits == 8

\* the sizes term_size may report: terminals too narrow or too low for the
\* status line, and terminals just wide and high enough for it
TermWidths == {4, 5, 6}
TermHeights == {0, 1}

\* the characters a key or a buffer may hold: the two command letters, their
\* upper-case forms, and two characters that are no command
Chars == {"q", "r", "Q", "R", "x", "a"}

\* all buffers of at most n characters
Strings(n) == UNION {[1..k -> Chars] : k \in 0..n}

Last(s) == s[Len(s)]

----------------------------------------------------------------------------
(* enum Action, and Option<Action> *)

Undefined == <<"Undefined">>
Quit == <<"Quit">>
Replace(c) == <<"Replace", c>>

None == <<"None">>
Some(a) == <<"Some", a>>
IsSome(r) == r[1] = "Some"

\* no call of interpret_command was made
NotCalled == <<"NotCalled">>

----------------------------------------------------------------------------
(* fn interpret_command(command: &str) -> Option<Action> *)

\* Variants of interpret_command, each with one slip, used to show that the
\* properties below depend on the code.

\* 'q' quits only when it is the whole buffer
interpret_command_exact_q(cmd) ==
    IF cmd = <<>>
    THEN None
    ELSE LET c == Head(cmd)
             rest == Tail(cmd)
         IN CASE c = "q" -> IF rest = <<>> THEN Some(Quit) ELSE Some(Undefined)
              [] c = "r" -> IF rest # <<>>
                            THEN Some(Replace(Head(rest)))
                            ELSE None
              [] OTHER -> Some(Undefined)

\* 'r' takes the last character of the buffer, not the second
interpret_command_last_char(cmd) ==
    IF cmd = <<>>
    THEN None
    ELSE LET c == Head(cmd)
             rest == Tail(cmd)
         IN CASE c = "q" -> Some(Quit)
              [] c = "r" -> IF rest # <<>>
                            THEN Some(Replace(rest[Len(rest)]))
                            ELSE None
              [] OTHER -> Some(Undefined)

\* the first character is matched without regard to case
interpret_command_nocase(cmd) ==
    IF cmd = <<>>
    THEN None
    ELSE LET c == Head(cmd)
             rest == Tail(cmd)
         IN CASE c \in {"q", "Q"} -> Some(Quit)
              [] c \in {"r", "R"} -> IF rest # <<>>
                                     THEN Some(Replace(Head(rest)))
                                     ELSE None
              [] OTHER -> Some(Undefined)

\* an undefined first character falls through to None
interpret_command_fallthrough(cmd) ==
    IF cmd = <<>>
    THEN None
    ELSE LET c == Head(cmd)
             rest == Tail(cmd)
         IN CASE c = "q" -> Some(Quit)
              [] c = "r" -> IF rest # <<>>
                            THEN Some(Replace(Head(rest)))
                            ELSE None
              [] OTHER -> None

\* a 'q' anywhere in the buffer quits
interpret_command_any_q(cmd) ==
    IF cmd = <<>>
    THEN None
    ELSE LET c == Head(cmd)
             rest == Tail(cmd)
         IN CASE \E i \in 1..Len(cmd) : cmd[i] = "q" -> Some(Quit)
              [] c = "r" -> IF rest # <<>>
                            THEN Some(Replace(Head(rest)))
                            ELSE None
              [] OTHER -> Some(Undefined)

interpret_command(cmd) ==
    IF cmd = <<>>
    THEN None                                  \* chars().next() is None
    ELSE LET c == Head(cmd)
             rest == Tail(cmd)
         IN CASE c = "q" -> Some(Quit)
              [] c = "r" -> IF rest # <<>>
                            THEN Some(Replace(Head(rest)))
                            ELSE None
              [] OTHER -> Some(Undefined)

----------------------------------------------------------------------------
(* Events of the terminal, and the results of Term::poll_event *)

KeyChar(c) == <<"Key", "Char", c>>
KeyESC == <<"Key", "ESC">>
KeyUp == <<"Key", "Up">>          \* a key that is neither Char nor ESC
Resize == <<"Resize">>            \* an event that is no key event

Ok(event) == <<"Ok", event>>
Err == <<"Err">>

----------------------------------------------------------------------------
(* The Arena Node Store and the Editable Tree.  A store is a sequence of   *)
(* slots, a Reference an index into it; a node is <<tag>> for a leaf,      *)
(* <<"Array", references>> or <<"Object", <<key, reference>> pairs>>.      *)

Tombstone == <<"Tombstone">>

\* insert(node): a new slot at the end of the store
insert(store, node) ==
    [store |-> Append(store, node), ref |-> Len(store) + 1]

\* get(reference): fails on a tombstone or a reference out of range
get(store, ref) ==
    IF ref \in 1..Len(store) /\ store[ref] # Tombstone
    THEN <<"Ok", store[ref]>>
    ELSE <<"InvalidReference">>

\* replace(reference, node): overwrites the slot in place
replace(store, ref, node) ==
    [store EXCEPT ![ref] = node]

\* build_from_tree_literal: children are inserted before their parent
RECURSIVE build_node_map(_, _)
RECURSIVE build_children(_, _, _)
build_children(lits, store, refs) ==
    IF lits = <<>>
    THEN [store |-> store, refs |-> refs]
    ELSE LET b == build_node_map(Head(lits), store)
         IN build_children(Tail(lits), b.store, Append(refs, b.ref))

build_node_map(lit, store) ==
    CASE lit[1] = "Array" ->
           LET kids == build_children(lit[2], store, <<>>)
           IN insert(kids.store, <<"Array", kids.refs>>)
      [] lit[1] = "Object" ->
           LET kids == build_children([i \in 1..Len(lit[2]) |-> lit[2][i][2]],
                                      store, <<>>)
           IN insert(kids.store,
                     <<"Object", [i \in 1..Len(lit[2]) |->
                                    <<lit[2][i][1], kids.refs[i]>>]>>)
      [] OTHER -> insert(store, lit)

\* the literal main() starts the editor with
TestTree ==
    <<"Array", << <<"True">>, <<"False">>,
                  <<"Object", << <<"value", <<"True">> >> >> >> >> >>

\* Spec::from_tree: the store with its root selected
from_tree(built) ==
    [store |-> built.store, selected |-> built.ref]

\* The tree main() starts the editor with
InitTree == from_tree(build_node_map(TestTree, <<>>))

\* the root Reference of that tree
Root == InitTree.selected

\* replace_selected(new_node): the store's replace at the selected
\* Reference; the selection is unchanged.  Fails with InvalidSelection, the
\* tree left as it is, if the selection is stale.
replace_selected(t, node) ==
    IF get(t.store, t.selected)[1] = "Ok"
    THEN [t EXCEPT !.store = replace(t.store, t.selected, node)]
    ELSE t

\* to_text(format_style): the text of the root node
to_text(t) == <<"text", t.store, Root>>

\* the nodes replace_selected is given in SpecTree
NewNodes == {<<"Null">>, <<"Array", <<1, 2>> >>}

----------------------------------------------------------------------------
(* Editor::update_display: the position of the status line, in usize       *)
(* arithmetic.                                                             *)

\* a - b in usize: the value modulo 2^UsizeBits, and whether it underflowed
usize_sub(a, b) ==
    [val |-> (a - b + 2 ^ UsizeBits) % (2 ^ UsizeBits), underflow |-> a < b]

\* print(height - 1, width - 5 - self.command.chars().count(), &self.command)
status_position(width, height, len) ==
    LET row == usize_sub(height, 1)
        w5 == usize_sub(width, 5)
        col == usize_sub(w5.val, len)
    IN [row |-> row.val, col |-> col.val,
        underflow |-> row.underflow \/ w5.underflow \/ col.underflow]

\* term_size has not been called yet
Unread ==
    [state |-> "unread", width |-> 0, height |-> 0, len |-> 0, row |-> 0, col |-> 0]

----------------------------------------------------------------------------
(* Editor::mainloop.  Each operator below gives the effect of a part of    *)
(* the loop's body as a record: the new buffer and tree, whether the loop  *)
(* is left by break, and the call of interpret_command it made.            *)

\* Variants of the parts of the loop, each with one slip.

\* Quit => {}: the break is missing
respond_no_break(action, tr) ==
    [tree |-> tr, break |-> FALSE]

\* Undefined => the tree is edited
respond_undefined_edits(action, tr) ==
    [tree |-> IF action = Undefined THEN replace_selected(tr, <<"Null">>) ELSE tr,
     break |-> (action = Quit)]

\* Undefined => break
respond_undefined_breaks(action, tr) ==
    [tree |-> tr, break |-> (action \in {Quit, Undefined})]

\* Replace(c) => the selection moves to a Reference the store never issued
respond_replace_reselects(action, tr) ==
    [tree |-> IF action[1] = "Replace"
              THEN [tr EXCEPT !.selected = Len(tr.store) + 1]
              ELSE tr,
     break |-> (action = Quit)]

\* match action { Undefined => {}, Quit => break, Replace(_c) => {} }
respond(action, tr) ==
    [tree |-> tr, break |-> (action = Quit)]

\* the buffer is cleared only when the action is not a Replace
key_char_keeps_replace(cmd, tr, c) ==
    LET pushed == Append(cmd, c)
        result == interpret_command(pushed)
    IN IF IsSome(result)
       THEN LET r == respond(result[2], tr)
            IN [command |-> IF result[2][1] = "Replace" THEN pushed ELSE <<>>,
                tree |-> r.tree, break |-> r.break,
                arg |-> pushed, ret |-> result]
       ELSE [command |-> pushed, tree |-> tr, break |-> FALSE,
             arg |-> pushed, ret |-> result]

\* only the new character is interpreted, not the accumulated buffer
key_char_latest_only(cmd, tr, c) ==
    LET pushed == Append(cmd, c)
        result == interpret_command(<<c>>)
    IN IF IsSome(result)
       THEN LET r == respond(result[2], tr)
            IN [command |-> <<>>, tree |-> r.tree, break |-> r.break,
                arg |-> <<c>>, ret |-> result]
       ELSE [command |-> pushed, tree |-> tr, break |-> FALSE,
             arg |-> <<c>>, ret |-> result]

\* Key::Char(c) => { push; if let Some(action) = interpret_command { clear; match } }
key_char(cmd, tr, c) ==
    LET pushed == Append(cmd, c)
        result == interpret_command(pushed)
    IN IF IsSome(result)
       THEN LET r == respond(result[2], tr)
            IN [command |-> <<>>, tree |-> r.tree, break |-> r.break,
                arg |-> pushed, ret |-> result]
       ELSE [command |-> pushed, tree |-> tr, break |-> FALSE,
             arg |-> pushed, ret |-> result]

\* Key::ESC => {}: the buffer is not cleared
key_esc_keeps(cmd, tr, a) ==
    [command |-> cmd, tree |-> tr, break |-> FALSE, arg |-> a, ret |-> NotCalled]

\* Key::ESC => { self.command.clear(); }
key_esc(cmd, tr, a) ==
    [command |-> <<>>, tree |-> tr, break |-> FALSE, arg |-> a, ret |-> NotCalled]

\* every key that is no character key clears the buffer, as ESC does
handle_event_keys_clear(event, cmd, tr, a) ==
    IF event[1] = "Key"
    THEN CASE event[2] = "Char" -> key_char(cmd, tr, event[3])
           [] OTHER -> key_esc(cmd, tr, a)
    ELSE [command |-> cmd, tree |-> tr, break |-> FALSE,
          arg |-> a, ret |-> NotCalled]

\* if let Event::Key(key) = event { match key { Char, ESC, _ } }
handle_event(event, cmd, tr, a) ==
    IF event[1] = "Key"
    THEN CASE event[2] = "Char" -> key_char(cmd, tr, event[3])
           [] event[2] = "ESC" -> key_esc(cmd, tr, a)
           [] OTHER -> [command |-> cmd, tree |-> tr, break |-> FALSE,
                        arg |-> a, ret |-> NotCalled]
    ELSE [command |-> cmd, tree |-> tr, break |-> FALSE,
          arg |-> a, ret |-> NotCalled]

\* a failed poll_event is skipped and the loop polls again
mainloop_iter_retry(result, cmd, tr, a) ==
    IF result[1] = "Ok"
    THEN LET h == handle_event(result[2], cmd, tr, a)
         IN [command |-> h.command, tree |-> h.tree, arg |-> h.arg, ret |-> h.ret,
             pc |-> IF h.break THEN "terminated" ELSE "display"]
    ELSE [command |-> cmd, tree |-> tr, arg |-> a, ret |-> NotCalled,
          pc |-> "poll"]

\* update_display is called only after an event that interpreted a command
mainloop_iter_skip_render(result, cmd, tr, a) ==
    IF result[1] = "Ok"
    THEN LET h == handle_event(result[2], cmd, tr, a)
         IN [command |-> h.command, tree |-> h.tree, arg |-> h.arg, ret |-> h.ret,
             pc |-> IF h.break THEN "terminated"
                    ELSE IF h.ret = NotCalled THEN "poll" ELSE "display"]
    ELSE [command |-> cmd, tree |-> tr, arg |-> a, ret |-> NotCalled,
          pc |-> "terminated"]

\* while let Ok(event) = self.term.poll_event() { ... }: one result of
\* poll_event, up to the break, the end of the loop or update_display
mainloop_iter(result, cmd, tr, a) ==
    IF result[1] = "Ok"
    THEN LET h == handle_event(result[2], cmd, tr, a)
         IN [command |-> h.command, tree |-> h.tree, arg |-> h.arg, ret |-> h.ret,
             pc |-> IF h.break THEN "terminated" ELSE "display"]
    ELSE [command |-> cmd, tree |-> tr, arg |-> a, ret |-> NotCalled,
          pc |-> "terminated"]

----------------------------------------------------------------------------
(* The editor loop as a state machine *)

\* Editor::new, and the entry of mainloop
Init ==
    /\ command = <<>>
    /\ tree = InitTree
    /\ pc = "poll"
    /\ polled = <<>>
    /\ arg = <<>>
    /\ ret = NotCalled
    /\ actions = <<>>
    /\ screen = <<"blank">>
    /\ term = Unread
    /\ renders = 0
    /\ edits = <<>>

\* poll_event is called: the loop is at its head and the terminal has more
\* to deliver
CanPoll ==
    /\ pc = "poll"
    /\ Len(polled) < MaxEvents

\* poll_event has returned result: the loop's body runs up to update_display
Iterate(result) ==
    /\ LET s == mainloop_iter(result, command, tree, arg)
       IN /\ command' = s.command
          /\ tree' = s.tree
          /\ pc' = s.pc
          /\ arg' = s.arg
          /\ ret' = s.ret
          /\ actions' = IF IsSome(s.ret) THEN Append(actions, s.ret[2]) ELSE actions
    /\ polled' = Append(polled, result)
    \* no arm of the match on the action, and nothing else in the loop, calls
    \* an edit operation of the tree
    /\ edits' = edits
    /\ UNCHANGED <<screen, term, renders>>

PollKeyChar ==
    /\ CanPoll
    /\ \E c \in Chars : Iterate(Ok(KeyChar(c)))

PollKeyESC ==
    /\ CanPoll
    /\ Iterate(Ok(KeyESC))

PollKeyOther ==
    /\ CanPoll
    /\ Iterate(Ok(KeyUp))

PollOtherEvent ==
    /\ CanPoll
    /\ Iterate(Ok(Resize))

PollErr ==
    /\ CanPoll
    /\ Iterate(Err)

\* update_display with every call on the terminal succeeding and no
\* subtraction underflowing
UpdateDisplay ==
    /\ pc = "display"
    /\ \E width \in TermWidths, height \in TermHeights :
          LET p == status_position(width, height, Len(command))
          IN /\ ~p.underflow
             /\ term' = [state |-> "ok", width |-> width, height |-> height,
                         len |-> Len(command), row |-> p.row, col |-> p.col]
    /\ screen' = <<"shown", to_text(tree), command>>
    /\ renders' = renders + 1
    /\ pc' = "poll"
    /\ UNCHANGED <<command, tree, polled, arg, ret, actions, edits>>

\* update_display with a subtraction underflowing, built without overflow
\* checks: the position wraps around
DisplayWraps ==
    /\ pc = "display"
    /\ \E width \in TermWidths, height \in TermHeights :
          LET p == status_position(width, height, Len(command))
          IN /\ p.underflow
             /\ term' = [state |-> "wrapped", width |-> width, height |-> height,
                         len |-> Len(command), row |-> p.row, col |-> p.col]
    /\ screen' = <<"shown", to_text(tree), command>>
    /\ renders' = renders + 1
    /\ pc' = "poll"
    /\ UNCHANGED <<command, tree, polled, arg, ret, actions, edits>>

\* update_display with a subtraction underflowing, built with overflow
\* checks: "attempt to subtract with overflow" panics
DisplayUnderflowPanics ==
    /\ pc = "display"
    /\ \E width \in TermWidths, height \in TermHeights :
          LET p == status_position(width, height, Len(command))
          IN /\ p.underflow
             /\ term' = [state |-> "underflow", width |-> width, height |-> height,
                         len |-> Len(command), row |-> p.row, col |-> p.col]
    /\ renders' = renders + 1
    /\ pc' = "panicked"
    /\ UNCHANGED <<command, tree, polled, arg, ret, actions, screen, edits>>

\* update_display with a call on the terminal failing: unwrap() panics
DisplayFails ==
    /\ pc = "display"
    /\ term' = [Unread EXCEPT !.state = "failed"]
    /\ renders' = renders + 1
    /\ pc' = "panicked"
    /\ UNCHANGED <<command, tree, polled, arg, ret, actions, screen, edits>>

Next ==
    \/ PollKeyChar
    \/ PollKeyESC
    \/ PollKeyOther
    \/ PollOtherEvent
    \/ PollErr
    \/ UpdateDisplay
    \/ DisplayWraps
    \/ DisplayUnderflowPanics
    \/ DisplayFails

Spec == Init /\ [][Next]_vars

----------------------------------------------------------------------------
(* The Editable Tree under the editor loop and any calls of                *)
(* replace_selected made between two events.                               *)

ReplaceSelected ==
    /\ pc = "poll"
    /\ \E node \in NewNodes : tree' = replace_selected(tree, node)
    /\ UNCHANGED <<command, pc, polled, arg, ret, actions, screen, term, renders, edits>>

NextTree ==
    \/ Next
    \/ ReplaceSelected

SpecTree == Init /\ [][NextTree]_vars

----------------------------------------------------------------------------
(* interpret_command on its own: every buffer of at most MaxLen characters *)
(* is given to it once.                                                    *)

InitInterp ==
    /\ command = <<>>
    /\ tree = InitTree
    /\ pc = "poll"
    /\ polled = <<>>
    /\ arg \in Strings(MaxLen)
    /\ ret = NotCalled
    /\ actions = <<>>
    /\ screen = <<"blank">>
    /\ term = Unread
    /\ renders = 0
    /\ edits = <<>>

CallInterpret ==
    /\ ret = NotCalled
    /\ ret' = interpret_command(arg)
    /\ UNCHANGED <<command, tree, pc, polled, arg, actions, screen, term, renders, edits>>

NextInterp == CallInterpret

SpecInterp == InitInterp /\ [][NextInterp]_vars

Called == ret # NotCalled

----------------------------------------------------------------------------
(* Properties of interpret_command, checked under SpecInterp *)

\* C2: every buffer whose first character is 'q' is interpreted as
\* Some(Quit), whatever follows the 'q'.
C2_QuitPrefix ==
    (Called /\ arg # <<>> /\ Head(arg) = "q") => ret = Some(Quit)

\* a 'q' followed by two more characters has been interpreted
C2_Witness ==
    Called /\ Len(arg) = 3 /\ Head(arg) = "q" /\ arg[2] = "r" /\ arg[3] = "x"

\* C3: every buffer that starts with 'r' followed by a character X, 'q' and
\* 'r' included, is interpreted as Some(Replace(X)), X being the second
\* character of the buffer.
C3_ReplaceSecondChar ==
    (Called /\ Len(arg) >= 2 /\ arg[1] = "r") => ret = Some(Replace(arg[2]))

\* "rq" followed by a different character has been interpreted
C3_Witness ==
    Called /\ Len(arg) = 3 /\ arg[1] = "r" /\ arg[2] = "q" /\ arg[3] = "a"

\* C4: every non-empty buffer whose first character is neither 'q' nor 'r'
\* (so 'Q' and 'R' too) is interpreted as Some(Undefined), whatever follows.
C4_UndefinedFirstChar ==
    (Called /\ arg # <<>> /\ Head(arg) \notin {"q", "r"}) => ret = Some(Undefined)

\* a buffer starting with upper-case 'Q' and going on with 'q' has been
\* interpreted
C4_Witness ==
    Called /\ Len(arg) = 2 /\ arg[1] = "Q" /\ arg[2] = "q"

\* C5: interpret_command returns None for the empty buffer and for "r", and
\* for no other buffer.
C5_NoneOnlyForEmptyAndR ==
    Called => (ret = None <=> arg \in {<<>>, <<"r">>})

\* the buffer "r" has been interpreted, with no result
C5_Witness ==
    Called /\ arg = <<"r">> /\ ret = None

----------------------------------------------------------------------------
(* Properties of the editor loop, checked under Spec *)

\* poll_event returns result in this step
Polls(result) == pc = "poll" /\ polled' = Append(polled, result)

\* the latest result of poll_event was a character key
LastWasChar == polled # <<>> /\ \E c \in Chars : Last(polled) = Ok(KeyChar(c))

\* C1: when the loop is running with an empty buffer and poll_event returns
\* the character key 'q', the command resolves to Quit and the loop is
\* Terminated with the tree as it was; once terminated on Quit it takes no
\* further step; and when 'q' is the first key, the tree is the initial tree
\* and Quit is the only Action resolved.
C1_QuitOnEmptyBuffer ==
    /\ [][(Polls(Ok(KeyChar("q"))) /\ command = <<>>)
            => (ret' = Some(Quit) /\ pc' = "terminated" /\ tree' = tree)]_vars
    /\ [][(pc = "terminated" /\ ret = Some(Quit)) => vars' = vars]_vars
    /\ [](polled = <<Ok(KeyChar("q"))>>
            => (pc = "terminated" /\ tree = InitTree /\ actions = <<Quit>>))

\* the loop has terminated on a 'q' that followed an aborted 'r'
C1_Witness ==
    /\ pc = "terminated"
    /\ polled = <<Ok(KeyChar("r")), Ok(KeyESC), Ok(KeyChar("q"))>>
    /\ ret = Some(Quit)

\* C6: whenever interpret_command has returned Some(action) for a character
\* key, the buffer is empty from then until the next event is read (and at
\* termination); after a character key the buffer is non-empty only if the
\* result was None, and it is then the buffer that was interpreted.
C6_BufferClearedOnSome ==
    /\ IsSome(ret) => command = <<>>
    /\ (LastWasChar /\ command # <<>>) => (ret = None /\ command = arg)
    /\ LastWasChar => ret # NotCalled

\* a Replace has resolved and the loop is about to read the next event
C6_Witness ==
    /\ pc = "poll"
    /\ polled = <<Ok(KeyChar("r")), Ok(KeyChar("x"))>>
    /\ ret = Some(Replace("x"))
    /\ command = <<>>

\* C7: a key that resolves to Undefined only clears the buffer: the tree is
\* unchanged and the loop goes on to update_display; after the keys 'x', 'q'
\* the Actions resolved are Undefined then Quit, the tree is the initial tree
\* and the loop is Terminated.
C7_UndefinedOnlyClears ==
    /\ [][(pc = "poll" /\ polled' # polled /\ ret' = Some(Undefined))
            => (command' = <<>> /\ tree' = tree /\ pc' = "display")]_vars
    /\ [](polled = <<Ok(KeyChar("x"))>>
            => (actions = <<Undefined>> /\ command = <<>> /\ tree = InitTree
                /\ pc # "terminated"))
    /\ [](polled = <<Ok(KeyChar("x")), Ok(KeyChar("q"))>>
            => (actions = <<Undefined, Quit>> /\ command = <<>> /\ tree = InitTree
                /\ pc = "terminated"))

\* the keys 'x', 'q' have been read
C7_Witness ==
    /\ polled = <<Ok(KeyChar("x")), Ok(KeyChar("q"))>>
    /\ pc = "terminated"

\* C8: the ESC key, read in any running state with any buffer, empties the
\* buffer, calls interpret_command not at all and resolves no Action, leaves
\* the tree unchanged and the loop running (it goes on to update_display).
C8_EscClearsBuffer ==
    [][Polls(Ok(KeyESC))
        => (command' = <<>> /\ ret' = NotCalled /\ actions' = actions
            /\ tree' = tree /\ pc' = "display")]_vars

\* ESC has been read while 'r' was pending (and shown on the screen)
C8_Witness ==
    /\ polled = <<Ok(KeyChar("r")), Ok(KeyESC)>>
    /\ screen = <<"shown", to_text(InitTree), <<"r">> >>
    /\ command = <<>>
    /\ pc = "display"

\* C9: every step that takes the loop to Terminated either reads a character
\* key whose command resolves to Quit or gets an error from poll_event; no
\* other step does.
C9_TerminatedOnlyByQuitOrIOError ==
    [][(pc # "terminated" /\ pc' = "terminated")
        => \/ (\E c \in Chars : Polls(Ok(KeyChar(c)))) /\ ret' = Some(Quit)
           \/ Polls(Err)]_vars

\* a Replace('q') resolved without terminating the loop, then poll_event
\* failed
C9_Witness ==
    /\ pc = "terminated"
    /\ polled = <<Ok(KeyChar("r")), Ok(KeyChar("q")), Err>>
    /\ actions = <<Replace("q")>>

\* C10: when poll_event fails the loop is Terminated in that step, with the
\* tree, the buffer and the screen as they were and no Action resolved, and
\* it takes no further step: no poll, no event, no update_display.
C10_PollErrorTerminates ==
    /\ [][Polls(Err)
            => (pc' = "terminated" /\ tree' = tree /\ command' = command
                /\ actions' = actions /\ screen' = screen)]_vars
    /\ [][(polled # <<>> /\ Last(polled) = Err) => vars' = vars]_vars

\* poll_event has failed while 'r' was pending
C10_Witness ==
    /\ pc = "terminated"
    /\ polled = <<Ok(KeyChar("r")), Err>>
    /\ command = <<"r">>

C12_ReplaceDispatchesEdit ==
    [][\A c \in Chars :
          (Polls(Ok(KeyChar(c))) /\ ret' = Some(Replace(c)))
            => (edits' = Append(edits, <<"replace_selected", c>>)
                /\ command' = <<>> /\ pc' = "display")]_vars

\* The reference tokenizer of C15: it scans a whole string of characters
\* left to right and cuts the shortest command at each position; what is
\* left of an incomplete command is its tail.
RECURSIVE Tokenize(_)
Tokenize(keys) ==
    IF keys = <<>>
    THEN [actions |-> <<>>, tail |-> <<>>]
    ELSE IF Head(keys) = "q"
    THEN LET t == Tokenize(Tail(keys))
         IN [actions |-> <<Quit>> \o t.actions, tail |-> t.tail]
    ELSE IF Head(keys) = "r"
    THEN IF Len(keys) >= 2
         THEN LET t == Tokenize(SubSeq(keys, 3, Len(keys)))
              IN [actions |-> <<Replace(keys[2])>> \o t.actions, tail |-> t.tail]
         ELSE [actions |-> <<>>, tail |-> keys]
    ELSE LET t == Tokenize(Tail(keys))
         IN [actions |-> <<Undefined>> \o t.actions, tail |-> t.tail]

\* every result of poll_event so far was a character key
OnlyChars == \A i \in 1..Len(polled) : \E c \in Chars : polled[i] = Ok(KeyChar(c))

\* the characters of those keys, in order
KeyString == [i \in 1..Len(polled) |-> polled[i][2][3]]

\* C15: when only character keys have been read, the Actions the loop has
\* resolved are those the reference tokenizer cuts from the string of the
\* keys, and the buffer is the tokenizer's unconsumed tail.
C15_LoopRefinesTokenizer ==
    OnlyChars => (actions = Tokenize(KeyString).actions
                  /\ command = Tokenize(KeyString).tail)

\* the keys 'r', 'q', 'r' have been read: one Replace, and a pending 'r'
C15_Witness ==
    /\ polled = <<Ok(KeyChar("r")), Ok(KeyChar("q")), Ok(KeyChar("r"))>>
    /\ actions = <<Replace("q")>>
    /\ command = <<"r">>

\* C16: the buffer is empty or the one-character string "r" in every state
\* of the loop, so whenever it renders or waits for the next event; it never
\* holds more than one character.
C16_BufferEmptyOrR ==
    command \in {<<>>, <<"r">>}

\* the loop waits for its third event with 'r' pending
C16_Witness ==
    /\ pc = "poll"
    /\ Len(polled) = 2
    /\ renders = 2
    /\ command = <<"r">>

\* C17: the character key 'q' terminates the loop if and only if the buffer
\* was empty just before it; with 'r' pending it resolves to Replace('q'),
\* the buffer is cleared and the loop stays running.
C17_QuitIffBufferEmpty ==
    [][Polls(Ok(KeyChar("q")))
        => /\ (pc' = "terminated") <=> (command = <<>>)
           /\ command = <<"r">>
                => (ret' = Some(Replace("q")) /\ command' = <<>> /\ pc' = "display")]_vars

\* 'q' has been read with 'r' pending, and the loop goes on to render
C17_Witness ==
    /\ polled = <<Ok(KeyChar("r")), Ok(KeyChar("q"))>>
    /\ ret = Some(Replace("q"))
    /\ command = <<>>
    /\ pc = "display"

\* the latest result of poll_event was the character key 'q'
LastWasQ == polled # <<>> /\ Last(polled) = Ok(KeyChar("q"))

\* C18 (refuted by the code, through the underflow of C20): from a running
\* state two consecutive 'q' keys bring the loop to Terminated unless a call
\* on the terminal fails: after the first 'q' the loop is Terminated or is
\* still running, and once the second has been read it is Terminated.
C18_TwoQuitsTerminate ==
    /\ (LastWasQ /\ term.state # "failed")
          => pc \in {"terminated", "display", "poll"}
    /\ (Len(polled) >= 2 /\ LastWasQ /\ polled[Len(polled) - 1] = Ok(KeyChar("q")))
          => pc = "terminated"

\* C19: an event that is no key event, and a key that is neither a
\* character key nor ESC, leaves the buffer, the tree and the Actions as they
\* were, interprets nothing and keeps the loop running; the next step of the
\* loop is a call of update_display, before any further event is read.
C19_OtherEventsChangeNothing ==
    /\ [][(Polls(Ok(KeyUp)) \/ Polls(Ok(Resize)))
            => (command' = command /\ tree' = tree /\ actions' = actions
                /\ ret' = NotCalled /\ pc' = "display")]_vars
    /\ [][pc = "display" => (renders' = renders + 1 /\ polled' = polled)]_vars

\* a pending 'r' has survived a key that is no command key and a resize,
\* each followed by a render
C19_Witness ==
    /\ polled = <<Ok(KeyChar("r")), Ok(KeyUp), Ok(Resize)>>
    /\ command = <<"r">>
    /\ renders = 3
    /\ screen = <<"shown", to_text(InitTree), <<"r">> >>
    /\ pc = "poll"

----------------------------------------------------------------------------
(* Properties of the Editable Tree, checked under SpecTree *)

\* C14: in every reachable state the selected Reference names a live slot of
\* the store (get(selection) does not fail) and is the root Reference it was
\* at construction, after any calls of replace_selected and any events of the
\* editor loop.
C14_SelectionLive ==
    /\ get(tree.store, tree.selected)[1] = "Ok"
    /\ tree.selected = Root

\* the root has been replaced, and the loop has since resolved a Replace
C14_Witness ==
    /\ tree.store[Root] = <<"Null">>
    /\ polled = <<Ok(KeyChar("r")), Ok(KeyChar("a"))>>
    /\ ret = Some(Replace("a"))
    /\ pc = "poll"

----------------------------------------------------------------------------
(* Properties of update_display, checked under Spec *)

\* C20 (refuted by the code): at every call of update_display that has read
\* term_size, whatever size it reported and whatever the buffer, neither
\* height - 1 nor width - 5 - length(buffer) underflows.
C20_NoUnderflow ==
    term.state \in {"ok", "wrapped", "underflow"}
        => (term.height - 1 >= 0 /\ term.width - 5 - term.len >= 0)

====
